---- MODULE Spec2Model ----
(***************************************************************************)
(* kube-snapshooter: one reconciliation pass over all persistent volume    *)
(* claims (shooter/__main__.py) with the per-namespace snapshot cache      *)
(* (shooter/cache.py).                                                      *)
(*                                                                         *)
(* Conventions of the model                                                *)
(*  - time is counted in whole hours; a wire timestamp is the pair         *)
(*    <<day, hour>> and parse_rfc3339 turns it into an hour count;         *)
(*  - a Python str that the code transforms (lower, strip, split, int) is  *)
(*    a sequence of one-character strings; a str that is only compared is  *)
(*    a TLA+ string;                                                       *)
(*  - an optional value (None / missing dict key) is <<>>, a present value *)
(*    v is <<v>>;                                                          *)
(*  - a dict is a function; the empty dict is <<>>.                        *)
(***************************************************************************)
EXTENDS Integers, Sequences, FiniteSets, TLC

VARIABLES
    argv,                 \* args.default_maxcount, fixed for the process
    claims,               \* the cluster's PVCs, in the order the API lists them
    cluster,              \* the cluster's snapshots: namespace -> sequence
    clock,                \* what now() returns, in hours
    pc,                   \* position of main()
    error,                \* the exception that ended the process, or "none"
    default_maxcount_map, \* main's local of that name
    ns_cache,             \* SnapshotCache._ns_cache
    pvcs,                 \* the listing main iterates over
    i,                    \* index of the current pvc in pvcs
    schedule,             \* main's local of that name
    ns_snaps,             \* main's local of that name
    pvc_snaps,            \* main's local of that name
    maxcount,             \* main's local of that name
    delete_count,         \* main's local of that name
    d,                    \* index into snaps_to_delete of the next deletion
    calls,                \* history: the collaborator calls of this pass
    cluster0,             \* history: the cluster when this pass began
    pass,                 \* history: number of the current pass
    passes                \* history: summaries of the finished passes

vars == <<argv, claims, cluster, clock, pc, error, default_maxcount_map,
          ns_cache, pvcs, i, schedule, ns_snaps, pvc_snaps, maxcount,
          delete_count, d, calls, cluster0, pass, passes>>

-----------------------------------------------------------------------------
(* Python helpers *)

None == <<>>
Some(v) == <<v>>
IsNone(o) == Len(o) = 0
Val(o) == o[1]

\* dict.get(key) / dict.get(key, default)
DictGet(dict, key, default) ==
    IF key \in DOMAIN dict THEN dict[key] ELSE default

Min(a, b) == IF a <= b THEN a ELSE b
Max(a, b) == IF a >= b THEN a ELSE b

\* seq[:n] for n >= 0
Take(seq, n) == SubSeq(seq, 1, Min(n, Len(seq)))

UpperChars == <<"A","B","C","D","E","F","G","H","I","J","K","L","M",
                "N","O","P","Q","R","S","T","U","V","W","X","Y","Z">>
LowerChars == <<"a","b","c","d","e","f","g","h","i","j","k","l","m",
                "n","o","p","q","r","s","t","u","v","w","x","y","z">>

LowerChar(c) ==
    IF \E k \in DOMAIN UpperChars : UpperChars[k] = c
    THEN LowerChars[CHOOSE k \in DOMAIN UpperChars : UpperChars[k] = c]
    ELSE c

\* str.lower()
Lower(s) == [k \in DOMAIN s |-> LowerChar(s[k])]

Digits == <<"0","1","2","3","4","5","6","7","8","9">>
IsDigit(c) == \E k \in DOMAIN Digits : Digits[k] = c
DigitVal(c) == (CHOOSE k \in DOMAIN Digits : Digits[k] = c) - 1

RECURSIVE LStrip(_)
LStrip(s) == IF s # <<>> /\ Head(s) = " " THEN LStrip(Tail(s)) ELSE s

RECURSIVE RStrip(_)
RStrip(s) ==
    IF s # <<>> /\ s[Len(s)] = " " THEN RStrip(SubSeq(s, 1, Len(s) - 1)) ELSE s

\* str.strip()
Strip(s) == LStrip(RStrip(s))

RECURSIVE DigitsVal(_)
DigitsVal(s) ==
    IF s = <<>> THEN 0
    ELSE 10 * DigitsVal(SubSeq(s, 1, Len(s) - 1)) + DigitVal(s[Len(s)])

Unsigned(s) ==
    IF s # <<>> /\ Head(s) \in {"+", "-"} THEN Tail(s) ELSE s

\* int(str) succeeds: optional blanks, optional sign, at least one digit
IntParses(s) ==
    LET u == Unsigned(Strip(s))
    IN  u # <<>> /\ \A k \in DOMAIN u : IsDigit(u[k])

\* int(str), for a str that IntParses
IntOfStr(s) ==
    LET t == Strip(s)
    IN  IF Head(t) = "-" THEN 0 - DigitsVal(Unsigned(t)) ELSE DigitsVal(Unsigned(t))


RECURSIVE Split(_, _)
\* str.split(sep) for a one-character sep
Split(s, sep) ==
    IF \E k \in DOMAIN s : s[k] = sep
    THEN LET k == CHOOSE k \in DOMAIN s :
                      s[k] = sep /\ \A j \in 1..(k - 1) : s[j] # sep
         IN  <<SubSeq(s, 1, k - 1)>> \o Split(SubSeq(s, k + 1, Len(s)), sep)
    ELSE <<s>>

\* str.split(sep, maxsplit=1)
SplitOnce(s, sep) ==
    IF \E k \in DOMAIN s : s[k] = sep
    THEN LET k == CHOOSE k \in DOMAIN s :
                      s[k] = sep /\ \A j \in 1..(k - 1) : s[j] # sep
         IN  <<SubSeq(s, 1, k - 1), SubSeq(s, k + 1, Len(s))>>
    ELSE <<s>>

-----------------------------------------------------------------------------
(* Module-level constants of shooter/__main__.py *)

schedule_annotation == "snapshooter.smp.io/schedule"
snapclass_annotation == "snapshooter.smp.io/snapclass"
maxcount_annotation == "snapshooter.smp.io/maxcount"
source_label == "snapshooter.smp.io/source"

S_daily == <<"d","a","i","l","y">>
S_weekly == <<"w","e","e","k","l","y">>
S_monthly == <<"m","o","n","t","h","l","y">>
S_never == <<"n","e","v","e","r">>

default_schedule == S_daily

\* timedelta(days=n) in hours; None for 'never'
schedule_intervals ==
    (S_daily :> Some(1 * 24)) @@ (S_weekly :> Some(7 * 24)) @@
    (S_monthly :> Some(30 * 24)) @@ (S_never :> None)

\* timedelta(hours=1)
allowed_advance == 1

\* the literal default_maxcount_map of main()
builtin_maxcount_map ==
    (S_daily :> 7) @@ (S_weekly :> 2) @@ (S_monthly :> 1) @@ (S_never :> 0)

-----------------------------------------------------------------------------
(* parse_assignment_list and the configuration step of main() *)

\* the unpacking "a, b = item.split('=', maxsplit=1)" raises ValueError
ParseAssignmentRaises(instr) ==
    LET items == Split(instr, ",")
    IN  \E k \in DOMAIN items : Len(SplitOnce(items[k], "=")) # 2

\* parse_assignment_list(instr), for an instr that does not raise
parse_assignment_list(instr) ==
    LET items == Split(instr, ",")
        key(k) == Strip(SplitOnce(items[k], "=")[1])
        val(k) == Strip(SplitOnce(items[k], "=")[2])
        keys == {key(k) : k \in DOMAIN items}
        last(a) == CHOOSE k \in DOMAIN items :
                       key(k) = a /\ \A j \in DOMAIN items : key(j) = a => j <= k
    IN  [a \in keys |-> val(last(a))]

\* a faulty variant: a value without any digit passes
MaxcountMapRaises_digitless(instr) ==
    LET given == parse_assignment_list(instr)
    IN  \E a \in DOMAIN given :
            LET u == Unsigned(Strip(given[a]))
            IN  \E k \in DOMAIN u : ~IsDigit(u[k])

\* int(v) raises ValueError for some value of the updated map
MaxcountMapRaises(instr) ==
    LET given == parse_assignment_list(instr)
    IN  \E a \in DOMAIN given : ~IntParses(given[a])

\* default_maxcount_map after lines 42-50
ConfiguredMaxcountMap(instr) ==
    LET given == parse_assignment_list(instr)
    IN  [a \in DOMAIN builtin_maxcount_map \cup DOMAIN given |->
            IF a \in DOMAIN given THEN IntOfStr(given[a])
            ELSE builtin_maxcount_map[a]]

-----------------------------------------------------------------------------
(* The per-claim computations of main() *)

\* lines 57-59: the effective schedule of a claim with an annotation dict
ResolveSchedule(annotations) ==
    LET given == Lower(DictGet(annotations, schedule_annotation, default_schedule))
    IN  IF given \in DOMAIN schedule_intervals THEN given ELSE default_schedule

\* a faulty variant: an annotation that is no integer falls back to the
\* default map, as a missing one does
ResolveMaxcount_defaultOnError(annotations, sched, map) ==
    IF maxcount_annotation \in DOMAIN annotations
          /\ IntParses(annotations[maxcount_annotation])
    THEN IntOfStr(annotations[maxcount_annotation])
    ELSE map[sched]

\* lines 79-82: int(annotations.get(maxcount_annotation, map[schedule])),
\* 1 on ValueError
ResolveMaxcount(annotations, sched, map) ==
    IF maxcount_annotation \in DOMAIN annotations
    THEN IF IntParses(annotations[maxcount_annotation])
         THEN IntOfStr(annotations[maxcount_annotation])
         ELSE 1
    ELSE map[sched]

\* kubernetes.config.dateutil.parse_rfc3339 on the wire pair <<day, hour>>
parse_rfc3339(wire) == wire[1] * 24 + wire[2]

\* the wire timestamp the API server gives an object created at hour t
WireTime(t) == <<t \div 24, t % 24>>

\* now().strftime('%Y-%m-%d-%H-%M-%S'), as the number with digits DDHH
strftime(t) == (t \div 24) * 100 + (t % 24)

\* cache.py line 20-21: every creationTimestamp parsed
ParseAll(snaps) ==
    [k \in DOMAIN snaps |->
        [snaps[k] EXCEPT !.creationTimestamp = parse_rfc3339(@)]]

\* a faulty variant: a cache that never finds its entry
Cached_never(cache, namespace) == FALSE

\* cache.py lines 11-13: self._ns_cache[namespace] raises no KeyError
Cached(cache, namespace) == namespace \in DOMAIN cache

\* a faulty variant: ownership by the label alone, whatever the source
IsOwned_labelOnly(snap, name) ==
    DictGet(Val(snap.labels), source_label, "") # ""

\* a faulty variant: ownership by the source alone
IsOwned_sourceOnly(snap, name) == snap.source = name

\* the lambda of lines 63-64, for a snapshot that has a labels dict
IsOwned(snap, name) ==
    /\ snap.source = name
    /\ DictGet(Val(snap.labels), source_label, "") # ""

\* the lambda of lines 63-64 raises KeyError: s['metadata']['labels'] is
\* evaluated only when the source matches
FilterRaises(snaps, name) ==
    \E k \in DOMAIN snaps : snaps[k].source = name /\ IsNone(snaps[k].labels)

\* a faulty variant: nothing is filtered out
FilterOwned_all(snaps, name) == snaps

\* filter(lambda ..., ns_snaps), line 63
FilterOwned(snaps, name) == SelectSeq(snaps, LAMBDA snap : IsOwned(snap, name))

\* a faulty variant: a sort that reverses snapshots of equal time
InsertByTime_unstable(sorted, snap) ==
    LET n == Cardinality({k \in DOMAIN sorted :
                 sorted[k].creationTimestamp < snap.creationTimestamp})
    IN  SubSeq(sorted, 1, n) \o <<snap>> \o SubSeq(sorted, n + 1, Len(sorted))

\* one step of a stable sort: snap goes after every element not newer than it
InsertByTime(sorted, snap) ==
    LET n == Cardinality({k \in DOMAIN sorted :
                 sorted[k].creationTimestamp <= snap.creationTimestamp})
    IN  SubSeq(sorted, 1, n) \o <<snap>> \o SubSeq(sorted, n + 1, Len(sorted))

RECURSIVE SortedByTime(_)
\* sorted(pvc_snaps, key=creationTimestamp), line 66 (stable)
SortedByTime(snaps) ==
    IF snaps = <<>> THEN <<>>
    ELSE InsertByTime(SortedByTime(SubSeq(snaps, 1, Len(snaps) - 1)),
                      snaps[Len(snaps)])

\* a faulty variant: the age of the oldest snapshot decides
IsDue_fromOldest(sched, owned, t) ==
    /\ sched # S_never
    /\ \/ owned = <<>>
       \/ t - owned[1].creationTimestamp
              >= Val(schedule_intervals[sched]) - allowed_advance

\* a faulty variant: the boundary itself is not due
IsDue_strict(sched, owned, t) ==
    /\ sched # S_never
    /\ \/ owned = <<>>
       \/ t - owned[Len(owned)].creationTimestamp
              > Val(schedule_intervals[sched]) - allowed_advance

\* lines 68-77: a snapshot is to be created
IsDue(sched, owned, t) ==
    /\ sched # S_never
    /\ \/ owned = <<>>
       \/ t - owned[Len(owned)].creationTimestamp
              >= Val(schedule_intervals[sched]) - allowed_advance

\* a faulty variant: the manifest carries no ownership label
create_snapshot_unlabelled(pvc, t) ==
    [name |-> <<pvc.name, strftime(t)>>,
     namespace |-> pvc.namespace,
     labels |-> Some(<<>>),
     source |-> pvc.name,
     snapclass |-> None,
     creationTimestamp |-> WireTime(t)]

\* lines 101-134: the object the API returns for the manifest of create_snapshot
create_snapshot(pvc, t) ==
    LET snapclass == DictGet(Val(pvc.annotations), snapclass_annotation, <<>>)
    IN  [name |-> <<pvc.name, strftime(t)>>,
         namespace |-> pvc.namespace,
         labels |-> Some(source_label :> pvc.name),
         source |-> pvc.name,
         snapclass |-> IF snapclass # <<>> THEN Some(snapclass) ELSE None,
         creationTimestamp |-> WireTime(t)]

\* a faulty variant: one deletion too many
DeleteCount_oneMore(owned, maxc) == Max(0, Len(owned) - maxc + 1)

\* a faulty variant: the count leaves the newest snapshot out
DeleteCount_withoutNewest(owned, maxc) == Max(0, Len(owned) - 1 - maxc)

\* line 83
DeleteCount(owned, maxc) == Max(0, Len(owned) - maxc)

\* line 90
snaps_to_delete == Take(pvc_snaps, delete_count)

-----------------------------------------------------------------------------
(* The inputs of a run *)

MaxClaims == 2
MaxSnaps == 2
MaxPasses == 2

Namespaces == {"ns1", "ns2"}

\* --default-maxcount: not given (the argparse default ''), and a valid list
Arg_default == <<>>
Arg_valid == <<"d","a","i","l","y","=","2",","," ","w","e","e","k","l","y","=","1">>

Arg_noassign == <<"d","a","i","l","y">>
Arg_notint == <<"w","e","e","k","l","y","=","x">>
Arg_never == <<"n","e","v","e","r","=","1">>

\* a count for a name that is no schedule, and a count that is a bare sign
Arg_unknown == <<"x","=","y">>
Arg_sign == <<"d","a","i","l","y","=","-">>

ArgValues ==
    {Arg_default, Arg_valid, Arg_noassign, Arg_notint, Arg_never, Arg_unknown,
     Arg_sign}

\* values of the schedule annotation
ScheduleValues ==
    { <<"W","e","e","k","l","y">>, <<"M","O","N","T","H","L","Y">>, S_never }

\* values of the maxcount annotation
MaxcountValues == { <<"0">>, <<"1">>, <<"-","1">> }

\* spellings of the schedule annotation
ScheduleSpellings ==
    ScheduleValues \cup
    { S_daily, <<"D","a","i","l","y">>, <<"N","E","V","E","R">>,
      <<"h","o","u","r","l","y">>, <<"d","a","i">>, <<>> }

\* spellings of the maxcount annotation
MaxcountSpellings ==
    MaxcountValues \cup
    { <<"2">>, <<"1","2">>, <<" ","3"," ">>, <<"+","2">>, <<"a","b","c">>, <<>>,
      <<"2",".","5">>, <<"-">>, <<"1"," ","2">> }

\* the annotation dicts of the claims of a listing of several
PlainAnnotations == { <<>>, (maxcount_annotation :> <<"0">>) }

\* a dict with the given optional entries
Dict2(k1, o1, k2, o2) ==
    [k \in (IF IsNone(o1) THEN {} ELSE {k1}) \cup (IF IsNone(o2) THEN {} ELSE {k2})
        |-> IF k = k1 THEN Val(o1) ELSE Val(o2)]

Optional(S) == {None} \cup {Some(v) : v \in S}

AnnotationDicts(schedules, maxcounts) ==
    { Dict2(schedule_annotation, o1, maxcount_annotation, o2) :
        o1 \in Optional(schedules), o2 \in Optional(maxcounts) }

Pvc(ns, name, annotations) ==
    [namespace |-> ns, name |-> name, annotations |-> annotations]

\* the identity of a claim
ClaimId(pvc) == <<pvc.namespace, pvc.name>>

ClaimIds == {<<"ns1", "a">>, <<"ns1", "b">>, <<"ns2", "a">>}

\* listings of at most n claims with distinct identities
Listings(pvcSet, n) ==
    { l \in UNION {[1..m -> pvcSet] : m \in 1..n} :
        \A j, k \in DOMAIN l : j # k => ClaimId(l[j]) # ClaimId(l[k]) }

\* a snapshot as the API lists it
Snapshot(ns, name, source, labels, wire) ==
    [name |-> name, namespace |-> ns, labels |-> labels, source |-> source,
     snapclass |-> None, creationTimestamp |-> wire]

\* label dicts: none at all, no source label, an empty one, a non-empty one
LabelChoices ==
    { None, Some(<<>>), Some(source_label :> ""), Some(source_label :> "x") }

\* creation times of the snapshots that exist before the first pass
OldTimes == {<<0, 0>>, <<0, 1>>}

\* hours at which a pass runs: the due boundary of each schedule, seen from
\* the two OldTimes
NowValues == {23, 167, 719}

\* the labelled snapshots of the claims, apart from their names
LabelledShapes ==
    { Snapshot(id[1], <<"snap", 0>>, id[2], Some(source_label :> id[2]), w) :
          id \in ClaimIds, w \in OldTimes }

\* what a snapshot of the cluster may look like, apart from its name
SnapshotShapes ==
    LabelledShapes \cup
    { Snapshot("ns1", <<"snap", 0>>, "a", l, <<0, 1>>) : l \in LabelChoices }

\* clusters of at most n snapshots; the k-th is named <<"snap", k>>
Clusters(shapes, n) ==
    { [ns \in Namespaces |->
          SelectSeq([k \in DOMAIN all |-> [all[k] EXCEPT !.name = <<"snap", k>>]],
                    LAMBDA snap : snap.namespace = ns)] :
        all \in UNION {[1..m -> shapes] : m \in 0..n} }

-----------------------------------------------------------------------------
(* The process *)

NoPvc == Pvc("", "", None)

\* the state of a process that has just started
Started ==
    /\ pc = "config"
    /\ error = "none"
    /\ default_maxcount_map = <<>>
    /\ ns_cache = <<>>
    /\ pvcs = <<>>
    /\ i = 0
    /\ schedule = <<>>
    /\ ns_snaps = <<>>
    /\ pvc_snaps = <<>>
    /\ maxcount = 0
    /\ delete_count = 0
    /\ d = 1
    /\ calls = <<>>

InitWith(args, listings, clusters, times) ==
    /\ argv \in args
    /\ claims \in listings
    /\ cluster \in clusters
    /\ clock \in times
    /\ cluster0 = cluster
    /\ pass = 1
    /\ passes = <<>>
    /\ Started

\* every claim identity, with every annotation dict of the set
Pvcs(annotationSet) ==
    {Pvc(id[1], id[2], a) : id \in ClaimIds, a \in annotationSet}

\* one claim, with or without annotations, over every cluster and pass time
InitOneClaim ==
    InitWith({Arg_valid},
             {<<Pvc("ns1", "a", a)>> :
                 a \in Optional(AnnotationDicts(ScheduleValues, MaxcountValues))},
             Clusters(SnapshotShapes, MaxSnaps),
             NowValues)

\* several claims, with the annotation dicts of PlainAnnotations, over the
\* clusters of labelled snapshots
InitManyClaims ==
    InitWith({Arg_valid},
             Listings(Pvcs({Some(a) : a \in PlainAnnotations}), MaxClaims)
                 \ Listings(Pvcs({Some(a) : a \in PlainAnnotations}), 1),
             Clusters(LabelledShapes, MaxSnaps),
             {23})

\* every value of --default-maxcount, for one claim and an empty cluster
InitArguments ==
    InitWith(ArgValues,
             {<<Pvc("ns1", "a", Some(<<>>))>>},
             Clusters(SnapshotShapes, 0),
             {23})

\* every spelling of the two annotations, for one claim
InitAnnotations ==
    InitWith({Arg_valid},
             {<<Pvc("ns1", "a", Some(a))>> :
                 a \in AnnotationDicts(ScheduleSpellings, MaxcountSpellings)},
             Clusters(SnapshotShapes, 0),
             {23})

Init == InitOneClaim \/ InitManyClaims \/ InitArguments \/ InitAnnotations

\* repeated passes over one claim
InitRepeat ==
    InitWith({Arg_valid},
             {<<Pvc("ns1", "a", Some(a))>> :
                 a \in AnnotationDicts(ScheduleValues, MaxcountValues)},
             Clusters(SnapshotShapes, MaxSnaps),
             NowValues)

pvc == pvcs[i]

\* a faulty variant: the exception is recorded and the process goes on
Raise_recorded(exception) ==
    /\ pc' = pc
    /\ error' = exception

\* an uncaught exception ends the process
Raise(exception) ==
    /\ pc' = "crashed"
    /\ error' = exception

Call(op, ns, name) == [op |-> op, namespace |-> ns, name |-> name, claim |-> i]

\* lines 42-50
Configure ==
    /\ pc = "config"
    /\ IF ParseAssignmentRaises(argv) \/ MaxcountMapRaises(argv)
       THEN /\ Raise("ValueError")
            /\ UNCHANGED default_maxcount_map
       ELSE /\ default_maxcount_map' = ConfiguredMaxcountMap(argv)
            /\ pc' = "list_pvcs"
            /\ UNCHANGED error
    /\ UNCHANGED <<argv, claims, cluster, clock, ns_cache, pvcs, i, schedule,
                   ns_snaps, pvc_snaps, maxcount, delete_count, d, calls,
                   cluster0, pass, passes>>

\* line 56: list_persistent_volume_claim_for_all_namespaces()
ListClaims ==
    /\ pc = "list_pvcs"
    /\ calls' = Append(calls, Call("listClaims", "", <<"", 0>>))
    /\ \/ /\ pvcs' = claims
          /\ pc' = "loop"
          /\ UNCHANGED error
       \/ /\ Raise("ApiException")
          /\ UNCHANGED pvcs
    /\ UNCHANGED <<argv, claims, cluster, clock, default_maxcount_map, ns_cache,
                   i, schedule, ns_snaps, pvc_snaps, maxcount, delete_count, d,
                   cluster0, pass, passes>>

\* the for statement of line 56 is about to take its next element
AtLoopHead ==
    \/ pc = "loop"
    \/ pc = "delete" /\ d > Len(snaps_to_delete)

\* lines 56-60: the next claim and its schedule
NextClaim ==
    /\ AtLoopHead
    /\ i < Len(pvcs)
    /\ i' = i + 1
    /\ IF IsNone(pvcs[i + 1].annotations)
       THEN /\ Raise("AttributeError")
            /\ UNCHANGED schedule
       ELSE /\ schedule' = ResolveSchedule(Val(pvcs[i + 1].annotations))
            /\ pc' = "get_snapshots"
            /\ UNCHANGED error
    /\ UNCHANGED <<argv, claims, cluster, clock, default_maxcount_map, ns_cache,
                   pvcs, ns_snaps, pvc_snaps, maxcount, delete_count, d, calls,
                   cluster0, pass, passes>>

\* line 56: the listing is exhausted, main returns
Finish ==
    /\ AtLoopHead
    /\ i = Len(pvcs)
    /\ pc' = "done"
    /\ UNCHANGED <<argv, claims, cluster, clock, error, default_maxcount_map,
                   ns_cache, pvcs, i, schedule, ns_snaps, pvc_snaps, maxcount,
                   delete_count, d, calls, cluster0, pass, passes>>

\* line 62 and cache.py lines 10-22
GetSnapshots ==
    /\ pc = "get_snapshots"
    /\ IF Cached(ns_cache, pvc.namespace)
       THEN /\ ns_snaps' = ns_cache[pvc.namespace]
            /\ pc' = "decide"
            /\ UNCHANGED <<error, ns_cache, calls>>
       ELSE /\ calls' = Append(calls, Call("listSnapshots", pvc.namespace, <<"", 0>>))
            /\ \/ /\ ns_cache' = ns_cache @@
                         (pvc.namespace :> ParseAll(cluster[pvc.namespace]))
                  /\ ns_snaps' = ns_cache'[pvc.namespace]
                  /\ pc' = "decide"
                  /\ UNCHANGED error
               \/ /\ Raise("ApiException")
                  /\ UNCHANGED <<ns_cache, ns_snaps>>
    /\ UNCHANGED <<argv, claims, cluster, clock, default_maxcount_map, pvcs, i,
                   schedule, pvc_snaps, maxcount, delete_count, d, cluster0,
                   pass, passes>>

\* lines 63-72 and 76: the claim's snapshots, oldest first, and whether one is due
Decide ==
    /\ pc = "decide"
    /\ IF FilterRaises(ns_snaps, pvc.name)
       THEN /\ Raise("KeyError")
            /\ UNCHANGED pvc_snaps
       ELSE /\ pvc_snaps' = SortedByTime(FilterOwned(ns_snaps, pvc.name))
            /\ pc' = IF IsDue(schedule, pvc_snaps', clock) THEN "create" ELSE "retain"
            /\ UNCHANGED error
    /\ UNCHANGED <<argv, claims, cluster, clock, default_maxcount_map, ns_cache,
                   pvcs, i, schedule, ns_snaps, maxcount, delete_count, d, calls,
                   cluster0, pass, passes>>

\* lines 73 and 77, create_snapshot: the API call and the append
Create ==
    /\ pc = "create"
    /\ LET made == create_snapshot(pvc, clock)
       IN  /\ calls' = Append(calls, Call("createSnapshot", made.namespace, made.name))
           /\ \/ /\ \A k \in DOMAIN cluster[made.namespace] :
                        cluster[made.namespace][k].name # made.name
                 /\ cluster' = [cluster EXCEPT ![made.namespace] = Append(@, made)]
                 /\ pvc_snaps' = Append(pvc_snaps, made)
                 /\ pc' = "retain"
                 /\ UNCHANGED error
              \/ /\ Raise("ApiException")
                 /\ UNCHANGED <<cluster, pvc_snaps>>
    /\ UNCHANGED <<argv, claims, clock, default_maxcount_map, ns_cache, pvcs, i,
                   schedule, ns_snaps, maxcount, delete_count, d, cluster0, pass,
                   passes>>

\* lines 79-90
Retain ==
    /\ pc = "retain"
    /\ maxcount' = ResolveMaxcount(Val(pvc.annotations), schedule, default_maxcount_map)
    /\ delete_count' = DeleteCount(pvc_snaps, maxcount')
    /\ d' = 1
    /\ pc' = "delete"
    /\ UNCHANGED <<argv, claims, cluster, clock, error, default_maxcount_map,
                   ns_cache, pvcs, i, schedule, ns_snaps, pvc_snaps, calls,
                   cluster0, pass, passes>>

\* lines 91-98: one iteration of the deletion loop
Delete ==
    /\ pc = "delete"
    /\ d <= Len(snaps_to_delete)
    /\ LET snap == snaps_to_delete[d]
       IN  /\ calls' = Append(calls, Call("deleteSnapshot", snap.namespace, snap.name))
           /\ \/ /\ \E k \in DOMAIN cluster[snap.namespace] :
                        cluster[snap.namespace][k].name = snap.name
                 /\ cluster' = [cluster EXCEPT ![snap.namespace] =
                        SelectSeq(@, LAMBDA other : other.name # snap.name)]
                 /\ d' = d + 1
                 /\ UNCHANGED <<pc, error>>
              \/ /\ Raise("ApiException")
                 /\ UNCHANGED <<cluster, d>>
    /\ UNCHANGED <<argv, claims, clock, default_maxcount_map, ns_cache, pvcs, i,
                   schedule, ns_snaps, pvc_snaps, maxcount, delete_count,
                   cluster0, pass, passes>>

Next ==
    \/ Configure
    \/ ListClaims
    \/ NextClaim
    \/ Finish
    \/ GetSnapshots
    \/ Decide
    \/ Create
    \/ Retain
    \/ Delete

Spec == Init /\ [][Next]_vars

\* hours between the end of one pass and the start of the next
Elapsed == {0, 23}

\* the external scheduler starts the process again after a pass that ended
\* without an exception
StartPass ==
    /\ pc = "done"
    /\ pass < MaxPasses
    /\ \E dt \in Elapsed : clock' = clock + dt
    /\ pass' = pass + 1
    /\ passes' = Append(passes, [clock |-> clock, calls |-> calls, pvcs |-> pvcs])
    /\ cluster0' = cluster
    /\ pc' = "config"
    /\ default_maxcount_map' = <<>>
    /\ ns_cache' = <<>>
    /\ pvcs' = <<>>
    /\ i' = 0
    /\ schedule' = <<>>
    /\ ns_snaps' = <<>>
    /\ pvc_snaps' = <<>>
    /\ maxcount' = 0
    /\ delete_count' = 0
    /\ d' = 1
    /\ calls' = <<>>
    /\ UNCHANGED <<argv, claims, cluster, error>>

NextRepeat == Next \/ StartPass

SpecRepeat == InitRepeat /\ [][NextRepeat]_vars


-----------------------------------------------------------------------------
(* Vocabulary of the properties *)

\* ownership as the specification words it: the source names the claim and
\* the ownership label is present and not empty
Owns(snap, name) ==
    /\ snap.source = name
    /\ ~IsNone(snap.labels)
    /\ source_label \in DOMAIN Val(snap.labels)
    /\ Val(snap.labels)[source_label] # ""

\* the owned snapshots of the k-th claim of the listing among snaps
OwnedOf(k, snaps) == SelectSeq(snaps, LAMBDA snap : Owns(snap, pvcs[k].name))

\* before the pass, and now
OwnedBefore(k) == OwnedOf(k, cluster0[pvcs[k].namespace])
OwnedNow(k) == OwnedOf(k, cluster[pvcs[k].namespace])

\* the calls of one kind made for the k-th claim, in order
CallsOf(k, op) == SelectSeq(calls, LAMBDA c : c.claim = k /\ c.op = op)
Created(k) == Len(CallsOf(k, "createSnapshot"))
Deleted(k) == Len(CallsOf(k, "deleteSnapshot"))

NamesOf(seq) == {seq[k].name : k \in DOMAIN seq}

\* the k-th claim has passed its creation step without an exception
Decided(k) ==
    /\ k \in 1..i
    /\ k < i \/ pc \in {"retain", "delete", "done"}

\* the k-th claim has been processed to the end without an exception
Completed(k) ==
    /\ k \in 1..i
    /\ k < i \/ AtLoopHead \/ pc = "done"

\* the resolved policy of the k-th claim, which has annotations
ScheduleOf(k) == ResolveSchedule(Val(pvcs[k].annotations))
MaxcountOf(k) ==
    ResolveMaxcount(Val(pvcs[k].annotations), ScheduleOf(k), default_maxcount_map)

\* the intervals of the specification, in hours
IntervalHours(sched) ==
    CASE sched = S_daily -> 24
      [] sched = S_weekly -> 168
      [] sched = S_monthly -> 720

\* the greatest creation time among the snapshots of a non-empty sequence
LastTime(snaps) ==
    CHOOSE t \in {parse_rfc3339(snaps[k].creationTimestamp) : k \in DOMAIN snaps} :
        \A k \in DOMAIN snaps : parse_rfc3339(snaps[k].creationTimestamp) <= t

-----------------------------------------------------------------------------
(* C1: after a pass without a failed call, every claim keeps
   min(E + c, maxCount) owned snapshots, where E counts its owned snapshots
   before the pass and c its creations; the pass issues
   max(0, E + c - maxCount) deletions for it; at most maxCount survive. *)
C1_RetainedCount ==
    pc = "done" =>
        \A k \in DOMAIN pvcs :
            LET E == Len(OwnedBefore(k))
                c == Created(k)
                m == MaxcountOf(k)
            IN  /\ Len(OwnedNow(k)) = Min(E + c, m)
                /\ Deleted(k) = Max(0, E + c - m)
                /\ Len(OwnedNow(k)) <= m

\* the same for the claims whose resolved maxcount is not negative
C1_RetainedCountNonNegative ==
    pc = "done" =>
        \A k \in DOMAIN pvcs :
            LET E == Len(OwnedBefore(k))
                c == Created(k)
                m == MaxcountOf(k)
            IN  m >= 0 =>
                    /\ Len(OwnedNow(k)) = Min(E + c, m)
                    /\ Deleted(k) = Max(0, E + c - m)

-----------------------------------------------------------------------------
\* the creation time of the b-th element of the working sequence of the
\* current claim: the object returned by the create call is last, unparsed
WorkingTime(b) ==
    IF Created(i) = 1 /\ b = Len(pvc_snaps)
    THEN parse_rfc3339(pvc_snaps[b].creationTimestamp)
    ELSE pvc_snaps[b].creationTimestamp

\* the place of a snapshot in the listing of its namespace before the pass
InventoryPlace(snap) ==
    CHOOSE k \in DOMAIN cluster0[snap.namespace] :
        cluster0[snap.namespace][k].name = snap.name

\* the number of snapshots of the current claim that existed before the pass
Existing == Len(pvc_snaps) - Created(i)

(* C2: the snapshots deleted for a claim are the first `excess` elements of
   its owned snapshots sorted ascending by creation time, a snapshot created
   in this pass being last; no deleted snapshot is newer than a retained one;
   snapshots of equal time keep their inventory order. *)
C2_OldestPrefixDeleted ==
    pc = "delete" =>
        LET excess == Max(0, Len(pvc_snaps) - maxcount)
            gone == CallsOf(i, "deleteSnapshot")
        IN  \* the working sequence is the owned snapshots, then the created one
            /\ NamesOf(SubSeq(pvc_snaps, 1, Existing)) = NamesOf(OwnedBefore(i))
            /\ Existing = Len(OwnedBefore(i))
            /\ Created(i) = 1 =>
                   pvc_snaps[Len(pvc_snaps)].name = CallsOf(i, "createSnapshot")[1].name
            \* ascending, and stable
            /\ \A a, b \in DOMAIN pvc_snaps :
                   a < b =>
                       /\ WorkingTime(a) <= WorkingTime(b)
                       /\ (b <= Existing /\ WorkingTime(a) = WorkingTime(b)) =>
                              InventoryPlace(pvc_snaps[a]) < InventoryPlace(pvc_snaps[b])
            \* the deletions are a prefix of it, in order
            /\ Len(gone) = d - 1
            /\ \A a \in DOMAIN gone : gone[a].name = pvc_snaps[a].name
            /\ AtLoopHead =>
                   /\ Len(gone) = Min(excess, Len(pvc_snaps))
                   /\ NamesOf(OwnedNow(i)) =
                          NamesOf(SubSeq(pvc_snaps, Len(gone) + 1, Len(pvc_snaps)))
                   /\ \A a \in 1..Len(gone) : \A b \in (Len(gone) + 1)..Len(pvc_snaps) :
                          WorkingTime(a) <= WorkingTime(b)

\* two owned snapshots of equal time, one deleted and one kept
C2_Witness ==
    /\ pc = "delete"
    /\ AtLoopHead
    /\ Existing = 2
    /\ d = 2
    /\ WorkingTime(1) = WorkingTime(2)
    /\ error = "none"

(* C3: a claim with schedule daily, weekly or monthly and at least one owned
   snapshot gets exactly one createSnapshot when now - last >= interval - 1
   hour (the boundary included), and none when now - last < interval - 1
   hour, last being the greatest creation time of its owned snapshots. *)
C3_CreateIffDue ==
    \A k \in 1..i :
        (~IsNone(pvcs[k].annotations) /\ ScheduleOf(k) # S_never
              /\ OwnedBefore(k) # <<>>) =>
            LET due == clock - LastTime(OwnedBefore(k))
                           >= IntervalHours(ScheduleOf(k)) - 1
            IN  /\ Created(k) <= 1
                /\ ~due => Created(k) = 0
                /\ (due /\ Decided(k)) => Created(k) = 1

\* the daily boundary: the last snapshot is exactly 23 hours old
C3_Witness ==
    /\ pc = "retain"
    /\ schedule = S_daily
    /\ OwnedBefore(i) # <<>>
    /\ clock - LastTime(OwnedBefore(i)) = 23
    /\ Created(i) = 1

(* C4: a claim whose schedule is not never and that owns no snapshot gets a
   createSnapshot, whatever the time and whatever snapshots of other claims
   or without the ownership label its namespace holds. *)
C4_CreateWhenNoneOwned ==
    \A k \in 1..i :
        (Decided(k) /\ ScheduleOf(k) # S_never /\ OwnedBefore(k) = <<>>) =>
            Created(k) = 1

\* the namespace holds a younger snapshot of the claim that has no label
C4_Witness ==
    /\ pc = "retain"
    /\ schedule # S_never
    /\ OwnedBefore(i) = <<>>
    /\ \E k \in DOMAIN cluster0[pvc.namespace] :
           /\ cluster0[pvc.namespace][k].source = pvc.name
           /\ clock - parse_rfc3339(cluster0[pvc.namespace][k].creationTimestamp)
                  < IntervalHours(schedule) - 1
    /\ Created(i) = 1

(* C5: a claim whose schedule is never gets no createSnapshot; its deletion
   step still runs and deletes its oldest owned snapshots so that at most
   maxCount remain; without a maxcount annotation that maxCount is the
   built-in 0. *)
C5_NeverOnlyTrims ==
    \A k \in 1..i :
        (Completed(k) /\ ScheduleOf(k) = S_never) =>
            /\ Created(k) = 0
            /\ Deleted(k) = Len(OwnedBefore(k)) - Len(OwnedNow(k))
            /\ Len(OwnedNow(k)) <= MaxcountOf(k)
            /\ (maxcount_annotation \notin DOMAIN Val(pvcs[k].annotations)
                    /\ S_never \notin DOMAIN parse_assignment_list(argv)) =>
                   MaxcountOf(k) = 0

\* the same for the claims whose resolved maxcount is not negative
C5_NeverOnlyTrimsNonNegative ==
    \A k \in 1..i :
        (Completed(k) /\ ScheduleOf(k) = S_never /\ MaxcountOf(k) >= 0) =>
            /\ Created(k) = 0
            /\ Deleted(k) = Max(0, Len(OwnedBefore(k)) - MaxcountOf(k))
            /\ Len(OwnedNow(k)) = Min(Len(OwnedBefore(k)), MaxcountOf(k))

-----------------------------------------------------------------------------
(* Repeated passes *)

\* the pass before this one ended at the hour at which this one runs
NoTimeElapsed == pass >= 2 /\ passes[pass - 1].clock = clock

\* the createSnapshot calls of the previous pass for the k-th claim
CreatedBefore(k) ==
    Len(SelectSeq(passes[pass - 1].calls,
                  LAMBDA c : c.claim = k /\ c.op = "createSnapshot"))

(* C6 as stated: a pass that follows an error-free pass with no time elapsed
   issues no createSnapshot for a claim whose schedule is not never, whatever
   its maxCount (0 included), and no deleteSnapshot for a claim that is
   already at its maxCount. *)
C6_SecondPassIdle ==
    NoTimeElapsed =>
        \A k \in 1..i :
            ScheduleOf(k) # S_never =>
                /\ Created(k) = 0
                /\ Len(OwnedBefore(k)) <= MaxcountOf(k) => Deleted(k) = 0

(* C6 as amended: the same for the claims whose maxCount is at least 1; such
   a claim is at its maxCount after the first pass, and the second pass
   issues no deleteSnapshot for it. *)
C6_SecondPassIdleWhenKeeping ==
    NoTimeElapsed =>
        \A k \in 1..i :
            (ScheduleOf(k) # S_never /\ MaxcountOf(k) >= 1) =>
                /\ Created(k) = 0
                /\ Len(OwnedBefore(k)) <= MaxcountOf(k)
                /\ Deleted(k) = 0

\* the first pass created a snapshot and deleted one, the second did nothing
C6_Witness ==
    /\ NoTimeElapsed
    /\ pc = "done"
    /\ i = 1
    /\ ScheduleOf(1) # S_never
    /\ MaxcountOf(1) >= 1
    /\ CreatedBefore(1) = 1
    /\ \E c \in DOMAIN passes[pass - 1].calls :
           passes[pass - 1].calls[c].op = "deleteSnapshot"
    /\ Created(1) = 0
    /\ Deleted(1) = 0

-----------------------------------------------------------------------------
\* the place of the first call of a kind for the k-th claim, 0 if none
CallIndices(k, op) == {c \in DOMAIN calls : calls[c].claim = k /\ calls[c].op = op}

(* C7: the createSnapshot call of a claim precedes its deleteSnapshot calls;
   the created snapshot is the last element of the working sequence of the
   deletion step; with maxCount 0 every owned snapshot of the claim is
   deleted, the one just created included. *)
C7_CreateThenDelete ==
    /\ \A k \in 1..i :
           \A c \in CallIndices(k, "createSnapshot") :
               \A e \in CallIndices(k, "deleteSnapshot") : c < e
    /\ (pc \in {"retain", "delete"} /\ Created(i) = 1) =>
           /\ pvc_snaps # <<>>
           /\ pvc_snaps[Len(pvc_snaps)].name = CallsOf(i, "createSnapshot")[1].name
           /\ pc = "delete" => delete_count = Max(0, Len(pvc_snaps) - maxcount)
    /\ \A k \in 1..i :
           (Completed(k) /\ MaxcountOf(k) = 0) =>
               /\ OwnedNow(k) = <<>>
               /\ NamesOf(CallsOf(k, "deleteSnapshot")) =
                      NamesOf(OwnedBefore(k)) \cup NamesOf(CallsOf(k, "createSnapshot"))

\* maxCount 0: an older snapshot and the one just created have been deleted
C7_Witness ==
    /\ pc = "delete"
    /\ AtLoopHead
    /\ maxcount = 0
    /\ Created(i) = 1
    /\ Len(OwnedBefore(i)) = 1
    /\ Deleted(i) = 2

-----------------------------------------------------------------------------
\* the snapshots of the current claim's namespace, before the pass, whose
\* source names the claim and whose ownership label is not empty
LabelledOfClaim ==
    {snap \in {cluster0[pvc.namespace][k] : k \in DOMAIN cluster0[pvc.namespace]} :
        Owns(snap, pvc.name)}

\* in the deletion step, the working sequence holds the labelled snapshots
\* of the claim and what the pass created, and only they are deleted
LabelledOnly ==
    /\ pc \in {"create", "retain", "delete"} =>
           NamesOf(SubSeq(pvc_snaps, 1, Existing)) = {snap.name : snap \in LabelledOfClaim}
    /\ \A c \in DOMAIN calls :
           calls[c].op = "deleteSnapshot" =>
               \/ \E e \in 1..(c - 1) :
                      calls[e].op = "createSnapshot" /\ calls[e].name = calls[c].name
               \/ \E snap \in {cluster0[calls[c].namespace][k] :
                                  k \in DOMAIN cluster0[calls[c].namespace]} :
                      /\ snap.name = calls[c].name
                      /\ Owns(snap, pvcs[calls[c].claim].name)

(* C8: a snapshot is owned by a claim iff its source names the claim and its
   ownership label is not empty; a snapshot whose source matches but that has
   no label (no key, an empty value, no label dict) is left out of the
   claim's sequence and never deleted, and the pass continues normally. *)
C8_UnlabelledExcluded ==
    /\ LabelledOnly
    /\ error # "KeyError"

\* what holds of the code: the same, but for the snapshots without label dict
C8_UnlabelledExcludedUnlessRaised ==
    /\ LabelledOnly
    /\ error = "KeyError" =>
           \E k \in DOMAIN ns_snaps :
               ns_snaps[k].source = pvc.name /\ IsNone(ns_snaps[k].labels)

-----------------------------------------------------------------------------
\* what Python's int() gives for the spellings of the maxcount annotation;
\* None where it raises ValueError
PythonInt ==
    (<<"0">> :> Some(0)) @@ (<<"1">> :> Some(1)) @@ (<<"2">> :> Some(2)) @@
    (<<"-","1">> :> Some(0 - 1)) @@ (<<"1","2">> :> Some(12)) @@
    (<<" ","3"," ">> :> Some(3)) @@ (<<"+","2">> :> Some(2)) @@
    (<<"a","b","c">> :> None) @@ (<<>> :> None) @@ (<<"2",".","5">> :> None) @@
    (<<"-">> :> None) @@ (<<"1"," ","2">> :> None)

(* C9: without a maxcount annotation the resolved maxCount is the default
   map's value for the effective schedule; with one that is an integer it is
   that integer; with one that is not it is 1, whatever the schedule, and
   the claim is processed on. *)
C9_MaxcountResolution ==
    /\ pc = "delete" =>
           LET given == Val(pvc.annotations)
           IN  maxcount =
                   IF maxcount_annotation \notin DOMAIN given
                   THEN default_maxcount_map[schedule]
                   ELSE IF IsNone(PythonInt[given[maxcount_annotation]])
                        THEN 1
                        ELSE Val(PythonInt[given[maxcount_annotation]])
    /\ error = "ValueError" => i = 0

\* "abc" on a daily claim, whose default is not 1
C9_Witness ==
    /\ pc = "delete"
    /\ schedule = S_daily
    /\ default_maxcount_map[S_daily] # 1
    /\ maxcount_annotation \in DOMAIN Val(pvc.annotations)
    /\ Val(pvc.annotations)[maxcount_annotation] = <<"a","b","c">>
    /\ maxcount = 1

-----------------------------------------------------------------------------
\* the schedule each spelling of the annotation stands for
SpelledSchedule ==
    (S_daily :> S_daily) @@ (<<"D","a","i","l","y">> :> S_daily) @@
    (<<"W","e","e","k","l","y">> :> S_weekly) @@
    (<<"M","O","N","T","H","L","Y">> :> S_monthly) @@
    (S_never :> S_never) @@ (<<"N","E","V","E","R">> :> S_never) @@
    (<<"h","o","u","r","l","y">> :> S_daily) @@ (<<"d","a","i">> :> S_daily) @@
    (<<>> :> S_daily)

\* the schedule of the current claim is the one the specification gives it
ScheduleAsSpecified ==
    pc \in {"get_snapshots", "decide", "create", "retain", "delete"} =>
        /\ schedule \in {S_daily, S_weekly, S_monthly, S_never}
        /\ schedule =
               IF schedule_annotation \in DOMAIN Val(pvc.annotations)
               THEN SpelledSchedule[Val(pvc.annotations)[schedule_annotation]]
               ELSE S_daily

(* C10: the schedule annotation is compared without regard to case with
   daily, weekly, monthly, never; a claim without the annotation, without
   any annotations, or with another value has schedule daily; the resolved
   schedule is always one of the four. *)
C10_ScheduleResolution ==
    /\ ScheduleAsSpecified
    /\ error # "AttributeError"

\* what holds of the code: the same, but for the claims without annotations
C10_ScheduleResolutionUnlessRaised ==
    /\ ScheduleAsSpecified
    /\ error = "AttributeError" => IsNone(pvc.annotations)

-----------------------------------------------------------------------------
\* the places of the listSnapshots calls for a namespace
ListCalls(ns) ==
    {c \in DOMAIN calls : calls[c].op = "listSnapshots" /\ calls[c].namespace = ns}

(* C11: within a pass listSnapshots is called at most once for a namespace,
   by the first claim of the listing that lives in it; a later claim of the
   namespace gets the stored list without a call; the stored list is the
   namespace's snapshots as they were before the pass, whatever the pass has
   created or deleted since. *)
C11_FetchedOncePerNamespace ==
    /\ \A ns \in Namespaces :
           /\ Cardinality(ListCalls(ns)) <= 1
           /\ \A c \in ListCalls(ns) :
                  /\ pvcs[calls[c].claim].namespace = ns
                  /\ \A j \in 1..(calls[c].claim - 1) : pvcs[j].namespace # ns
           /\ ns \in DOMAIN ns_cache =>
                  /\ Cardinality(ListCalls(ns)) = 1
                  /\ ns_cache[ns] = ParseAll(cluster0[ns])
    /\ pc \in {"decide", "create", "retain", "delete"} =>
           /\ pvc.namespace \in DOMAIN ns_cache
           /\ ns_snaps = ns_cache[pvc.namespace]

\* the second claim of a namespace has the list that was stored before the
\* first one's creation changed the cluster
C11_Witness ==
    /\ pc = "decide"
    /\ i = 2
    /\ pvcs[1].namespace = pvcs[2].namespace
    /\ Created(1) = 1
    /\ cluster[pvc.namespace] # cluster0[pvc.namespace]
    /\ Cardinality(ListCalls(pvc.namespace)) = 1
    /\ ns_snaps = ParseAll(cluster0[pvc.namespace])

-----------------------------------------------------------------------------
\* the lists with an item that has no "=", or with a count that is no integer
MalformedArgs == {Arg_noassign, Arg_notint, Arg_unknown, Arg_sign}

(* C12: with a default-maxcount list that has an item without "=" or a count
   that is not an integer, the process ends with ValueError in its
   configuration step: no listClaims, listSnapshots, createSnapshot or
   deleteSnapshot call is made, no claim is taken up and the cluster is as it
   was. *)
C12_MalformedListFatal ==
    argv \in MalformedArgs =>
        /\ pc \in {"config", "crashed"}
        /\ pc = "crashed" => error = "ValueError"
        /\ calls = <<>>
        /\ pvcs = <<>>
        /\ i = 0
        /\ cluster = cluster0

\* the process has ended on a count that is a bare sign
C12_Witness ==
    /\ argv = Arg_sign
    /\ pc = "crashed"
    /\ error = "ValueError"
    /\ calls = <<>>

-----------------------------------------------------------------------------
\* the configuration step has completed
Configured == default_maxcount_map # <<>>

\* a supplied list overrides the schedules it names, and only them
SuppliedListOverrides ==
    (Configured /\ argv # Arg_default) =>
        LET given == parse_assignment_list(argv)
            builtin == (S_daily :> 7) @@ (S_weekly :> 2) @@ (S_monthly :> 1) @@
                       (S_never :> 0)
        IN  \A sched \in DOMAIN builtin :
                default_maxcount_map[sched] =
                    IF sched \in DOMAIN given THEN PythonInt[given[sched]][1]
                    ELSE builtin[sched]

(* C13: when the default-maxcount list is not supplied (the empty string),
   the configuration step succeeds with the map daily=7, weekly=2,
   monthly=1, never=0 and the pass goes on to the claims; a supplied list
   overrides only the schedules it names. *)
C13_DefaultsWhenNotSupplied ==
    /\ argv = Arg_default =>
           /\ error # "ValueError"
           /\ Configured =>
                  default_maxcount_map =
                      (S_daily :> 7) @@ (S_weekly :> 2) @@ (S_monthly :> 1) @@
                      (S_never :> 0)
    /\ SuppliedListOverrides

\* what holds of the code: the list that is not supplied ends the process
\* with ValueError before any call, a supplied one overrides what it names
C13_NotSuppliedIsFatal ==
    /\ argv = Arg_default =>
           /\ pc \in {"config", "crashed"}
           /\ pc = "crashed" => error = "ValueError"
           /\ calls = <<>>
    /\ SuppliedListOverrides

-----------------------------------------------------------------------------
(* C14: the resolved maxCount of a claim is never negative, whatever its
   maxcount annotation ("-1" included) and whatever the default map holds,
   so that the deletions of a claim never exceed the length of its working
   sequence less a maxCount that is at least 0. *)
C14_MaxcountNonNegative ==
    /\ Configured =>
           \A sched \in DOMAIN default_maxcount_map : default_maxcount_map[sched] >= 0
    /\ pc = "delete" =>
           /\ maxcount >= 0
           /\ delete_count = Max(0, Len(pvc_snaps) - maxcount)
           /\ delete_count <= Len(pvc_snaps)

\* what holds of the code: a negative maxCount is the annotation's own value
C14_MaxcountNegativeAsWritten ==
    (pc = "delete" /\ maxcount < 0) =>
        /\ maxcount_annotation \in DOMAIN Val(pvc.annotations)
        /\ PythonInt[Val(pvc.annotations)[maxcount_annotation]] = Some(maxcount)
        /\ delete_count = Len(pvc_snaps) - maxcount
        /\ snaps_to_delete = pvc_snaps

-----------------------------------------------------------------------------
\* the names of the snapshots of a namespace
SnapNames(inventory, ns) == {inventory[ns][k].name : k \in DOMAIN inventory[ns]}

\* the names of the snapshots of a namespace once the calls of done, which
\* all succeeded, have acted on the cluster of before the pass
NamesAfter(done, ns) ==
    (SnapNames(cluster0, ns) \cup
        {done[c].name : c \in {e \in DOMAIN done :
            done[e].op = "createSnapshot" /\ done[e].namespace = ns}})
    \ {done[c].name : c \in {e \in DOMAIN done :
            done[e].op = "deleteSnapshot" /\ done[e].namespace = ns}}

\* after a failed call: it is the last call of the log and was made once, it
\* changed nothing, and what the calls before it did is still in the cluster
FailedCallIsLast ==
    error = "ApiException" =>
        /\ pc = "crashed"
        /\ calls # <<>>
        /\ LET failed == calls[Len(calls)]
               done == SubSeq(calls, 1, Len(calls) - 1)
           IN  /\ failed.claim = i
               /\ \A c \in DOMAIN done : done[c] # failed
               /\ \A c \in DOMAIN done : done[c].claim <= i
               /\ failed.op = "createSnapshot" => Deleted(i) = 0
               /\ \A ns \in Namespaces : SnapNames(cluster, ns) = NamesAfter(done, ns)

(* C15: a failed listSnapshots, createSnapshot or deleteSnapshot ends the
   pass with the exception: the failed call is the last call of the pass and
   is made once, no call follows it for that claim or a later one (none of
   the deletions after a failed create), and the creations and deletions
   made before it stay in the cluster. *)
C15_FailureAbortsPass == [](FailedCallIsLast) /\ [][pc # "crashed"]_vars

\* a deletion failed after the creation for the first of two claims
C15_Witness ==
    /\ error = "ApiException"
    /\ calls[Len(calls)].op = "deleteSnapshot"
    /\ Created(1) = 1
    /\ i = 1
    /\ Len(pvcs) = 2
    /\ \E ns \in Namespaces : SnapNames(cluster, ns) # SnapNames(cluster0, ns)

-----------------------------------------------------------------------------
\* the calls of the pass come claim by claim in listing order, and for one
\* claim as at most one listSnapshots, then at most one createSnapshot, then
\* the deleteSnapshot calls
CallsClaimByClaim ==
    /\ \A c, e \in DOMAIN calls : c < e => calls[c].claim <= calls[e].claim
    /\ \A c \in DOMAIN calls : calls[c].op = "listClaims" <=> c = 1
    /\ \A c \in DOMAIN calls : c > 1 => calls[c].claim \in 1..i
    /\ \A k \in 1..i :
           /\ Cardinality(CallIndices(k, "listSnapshots")) <= 1
           /\ Cardinality(CallIndices(k, "createSnapshot")) <= 1
           /\ \A c \in CallIndices(k, "listSnapshots") :
                  \A e \in CallIndices(k, "createSnapshot")
                             \cup CallIndices(k, "deleteSnapshot") : c < e
           /\ \A c \in CallIndices(k, "createSnapshot") :
                  \A e \in CallIndices(k, "deleteSnapshot") : c < e
    /\ pc = "loop" => i = 0
    /\ pc = "done" => i = Len(pvcs) /\ pvcs = claims

(* C16: in a pass in which no collaborator call fails, every claim of the
   listing is evaluated once, in listing order and one at a time, the calls
   for a claim (list, at most one create, the deletes) all preceding the
   calls for the next, and the pass ends after the last claim: it does not
   end before. *)
C16_EveryClaimInOrder ==
    /\ CallsClaimByClaim
    /\ (pc = "crashed" /\ calls # <<>>) => error = "ApiException"

\* what holds of the code: the calls come claim by claim, and a pass in which
\* no call fails ends before its last claim is done only with the KeyError
\* of a snapshot without labels or the AttributeError of a claim without
\* annotations
C16_InOrderUnlessRaised ==
    /\ CallsClaimByClaim
    /\ (pc = "crashed" /\ calls # <<>> /\ error # "ApiException") =>
           \/ /\ error = "KeyError"
              /\ \E k \in DOMAIN ns_snaps :
                     ns_snaps[k].source = pvc.name /\ IsNone(ns_snaps[k].labels)
           \/ /\ error = "AttributeError"
              /\ IsNone(pvc.annotations)

-----------------------------------------------------------------------------
\* the snapshots of a namespace, as a set
SnapsOf(inventory, ns) == {inventory[ns][k] : k \in DOMAIN inventory[ns]}

\* a claim taken up so far lives in ns and owns the snapshot
OwnedByListed(snap, ns) ==
    \E k \in 1..i : pvcs[k].namespace = ns /\ Owns(snap, pvcs[k].name)

(* C17: a deleteSnapshot call made for the claim (ns, name) is for namespace
   ns and for a snapshot that the claim owned before the pass (its source is
   name and its ownership label is not empty) or that an earlier
   createSnapshot call for the same claim made; a snapshot of another
   namespace, of another source or without the ownership label stays in the
   cluster, whatever the maxCount. *)
C17_DeletesOnlyOwned ==
    /\ \A c \in DOMAIN calls :
           calls[c].op = "deleteSnapshot" =>
               LET k == calls[c].claim
               IN  /\ calls[c].namespace = pvcs[k].namespace
                   /\ \/ \E snap \in SnapsOf(cluster0, pvcs[k].namespace) :
                             snap.name = calls[c].name /\ Owns(snap, pvcs[k].name)
                      \/ \E e \in 1..(c - 1) :
                             /\ calls[e].op = "createSnapshot"
                             /\ calls[e].claim = k
                             /\ calls[e].namespace = calls[c].namespace
                             /\ calls[e].name = calls[c].name
    /\ \A ns \in Namespaces :
           \A snap \in SnapsOf(cluster0, ns) :
               ~OwnedByListed(snap, ns) => snap \in SnapsOf(cluster, ns)

\* the snapshots of ns1/a have been deleted, the one just created included;
\* the snapshot of the claim of the same name in ns2 is still there
C17_Witness ==
    /\ pc = "done"
    /\ \E k \in 1..i :
           /\ ClaimId(pvcs[k]) = <<"ns1", "a">>
           /\ Deleted(k) >= 1
           /\ Created(k) = 1
    /\ \E snap \in SnapsOf(cluster, "ns2") : snap.source = "a"
    /\ \A k \in 1..i : pvcs[k].namespace = "ns1"

-----------------------------------------------------------------------------
\* the places of the deleteSnapshot calls of the pass
DeleteCalls == {c \in DOMAIN calls : calls[c].op = "deleteSnapshot"}

(* C18: within a pass no two deleteSnapshot calls are for the same snapshot
   (namespace and name), although the stored list of a namespace still holds
   what the pass has deleted. *)
C18_DeletedAtMostOnce ==
    \A c, e \in DeleteCalls :
        (calls[c].namespace = calls[e].namespace /\ calls[c].name = calls[e].name)
            => c = e

\* two claims of one namespace have each had a snapshot deleted; the second
\* worked on the list stored before the deletions of the first
C18_Witness ==
    /\ pc = "done"
    /\ i = 2
    /\ pvcs[1].namespace = pvcs[2].namespace
    /\ Len(OwnedBefore(1)) >= 1
    /\ Deleted(1) >= 1
    /\ Deleted(2) >= 1
    /\ ns_cache[pvcs[2].namespace] = ParseAll(cluster0[pvcs[2].namespace])

-----------------------------------------------------------------------------
(* C19: for a claim whose maxCount is at least 1 the last element of the
   working sequence (the snapshot just created, or else the owned snapshot of
   the greatest creation time) is no target of a deleteSnapshot call; after a
   pass without exception it is still among the snapshots the claim owns. *)
C19_NewestKept ==
    /\ (pc = "delete" /\ maxcount >= 1 /\ pvc_snaps # <<>>) =>
           LET newest == pvc_snaps[Len(pvc_snaps)]
           IN  /\ Created(i) = 1 => newest.name = CallsOf(i, "createSnapshot")[1].name
               /\ Created(i) = 0 =>
                      \A b \in DOMAIN pvc_snaps :
                          WorkingTime(b) <= WorkingTime(Len(pvc_snaps))
               /\ \A c \in CallIndices(i, "deleteSnapshot") : calls[c].name # newest.name
               /\ newest.name \in SnapNames(cluster, pvc.namespace)
    /\ pc = "done" =>
           \A k \in 1..i :
               (MaxcountOf(k) >= 1 /\ (OwnedBefore(k) # <<>> \/ Created(k) = 1)) =>
                   IF Created(k) = 1
                   THEN CallsOf(k, "createSnapshot")[1].name \in NamesOf(OwnedNow(k))
                   ELSE \E b \in DOMAIN OwnedNow(k) :
                            parse_rfc3339(OwnedNow(k)[b].creationTimestamp)
                                = LastTime(OwnedBefore(k))

\* maxCount 1: the two older snapshots have been deleted, the created one is
\* the one that is left
C19_Witness ==
    /\ pc = "done"
    /\ i = 1
    /\ MaxcountOf(1) = 1
    /\ Len(OwnedBefore(1)) = 2
    /\ Created(1) = 1
    /\ Deleted(1) = 2
    /\ NamesOf(OwnedNow(1)) = NamesOf(CallsOf(1, "createSnapshot"))

-----------------------------------------------------------------------------
\* the hour and the calls of the p-th pass, the current one included
PassClock(p) == IF p = pass THEN clock ELSE passes[p].clock
PassCalls(p) == IF p = pass THEN calls ELSE passes[p].calls

\* the p-th pass made a createSnapshot call for the k-th claim
CreatedIn(p, k) ==
    \E c \in DOMAIN PassCalls(p) :
        PassCalls(p)[c].claim = k /\ PassCalls(p)[c].op = "createSnapshot"

\* the policy of the k-th claim of the listing, the same in every pass
ListedSchedule(k) == ResolveSchedule(Val(claims[k].annotations))
ListedMaxcount(k) ==
    ResolveMaxcount(Val(claims[k].annotations), ListedSchedule(k),
                    ConfiguredMaxcountMap(argv))

(* C20: over passes without exception at non-decreasing hours, the cluster
   changing between them by nothing but the passes, two createSnapshot calls
   for a claim with schedule daily, weekly or monthly and maxCount at least 1
   are at least interval - 1 hours apart: 23, 167 and 719 hours. *)
C20_CreationsSpaced ==
    \A k \in DOMAIN claims :
        (ListedSchedule(k) # S_never /\ ListedMaxcount(k) >= 1) =>
            \A p, q \in 1..pass :
                (p < q /\ CreatedIn(p, k) /\ CreatedIn(q, k)) =>
                    PassClock(q) - PassClock(p) >= IntervalHours(ListedSchedule(k)) - 1

\* a daily claim: the second pass, 23 hours after the first, has created the
\* second snapshot
C20_Witness ==
    /\ pass = 2
    /\ pc = "done"
    /\ ListedSchedule(1) = S_daily
    /\ ListedMaxcount(1) >= 1
    /\ CreatedIn(1, 1)
    /\ CreatedIn(2, 1)
    /\ PassClock(2) - PassClock(1) = 23
    /\ Len(OwnedNow(1)) >= 1

====
